---- MODULE Spec2Model ----
(***************************************************************************)
(* Photo asset pipeline of guangfu250923: the local disk cache             *)
(* (localcache.PhotoPath, ThumbPath, Save, Exists), the retrieval handlers *)
(* GetPhoto and GetPhotoThumbnail, the upload handler UploadPhoto and the  *)
(* S3Uploader they call.                                                   *)
(*                                                                         *)
(* Requests are goroutines of one server process.  They share the file     *)
(* system, the photos table and the object store and nothing else.  Every  *)
(* action holds at most one file-system call of the code, so that the      *)
(* interleavings of the model are those of the system calls.               *)
(***************************************************************************)
EXTENDS Integers, Sequences, FiniteSets, TLC

VARIABLES
    s3,        \* h.s3 != nil: an object store is configured
    maxBytes,  \* S3Uploader.maxBytes
    photos,    \* rows of the photos table
    store,     \* objects of the bucket: key -> [body, ctype]
    fs,        \* the files of the cache tree: content, names, open descriptors
    req,       \* the in-flight requests, one record per goroutine
    hits,      \* history: path -> body of the first response served on a hit
    up,        \* the last upload: what was sent and what UploadPhoto answered
    lim        \* the write rate limiter: its maps and the requests inside it

vars == <<s3, maxBytes, photos, store, fs, req, hits, up, lim>>

----------------------------------------------------------------------------
(* Bounds of the model *)

\* goroutines serving retrieval requests at the same time
MaxReq == 2

\* chunks (write calls of io.Copy) of every stored image
NChunks == 2

\* width in bits of the machine integer of the model (Go's int has 64)
IntBits == 16

\* longest digit string of a thumbnail spec that the validation enumerates
MaxDigits == 5

\* upload requests of a run
MaxUploads == 2

Req == 1..MaxReq

----------------------------------------------------------------------------
(* Bytes and images *)

Min(a, b) == IF a < b THEN a ELSE b
Max(a, b) == IF a > b THEN a ELSE b

\* An encoded image is NChunks chunks <<image, index>>.
HoleImg == [fmt |-> "none", w |-> 0, h |-> 0, gen |-> "hole"]
Hole == <<HoleImg, 0>>

Encode(img) == [i \in 1..NChunks |-> <<img, i>>]

\* bytes that follow the end of the image in a file
Padding(img, n) == [k \in 1..n |-> <<img, NChunks + k>>]

\* image.Decode with the codecs the handlers import (image/jpeg, image/png):
\* png and jpeg data decodes when the image is all there; the decoders stop
\* at the end of the image and do not look at what follows it.
DecodableFormats == {"png", "jpeg"}

Decode(data) ==
    IF /\ Len(data) >= NChunks
       /\ SubSeq(data, 1, NChunks) = Encode(data[1][1])
       /\ data[1][1].fmt \in DecodableFormats
    THEN [ok |-> TRUE, img |-> data[1][1], format |-> data[1][1].fmt]
    ELSE [ok |-> FALSE, img |-> HoleImg, format |-> ""]

\* io.LimitReader(src, 32<<20) followed by io.ReadAll
DecodeLimit == 3
LimitRead(bytes, n) == SubSeq(bytes, 1, Min(n, Len(bytes)))

\* One Write call of a file descriptor at offset off (0-based, in chunks).
WriteAt(content, off, chunk) ==
    [i \in 1..Max(Len(content), off + 1) |->
        IF i = off + 1 THEN chunk
        ELSE IF i <= Len(content) THEN content[i] ELSE Hole]

----------------------------------------------------------------------------
(* Cache directives and URLs *)

CCImmutable == "public, max-age=31536000, immutable"
CCPrivate == "private, max-age=60"
CCNone == ""

PresignedURL(objectKey) == <<"presigned", objectKey>>
NoURL == <<>>

----------------------------------------------------------------------------
(* localcache: paths *)

Pid == "pid"

\* sha256 of the key, reduced to its first two hex digits: 256 shards
NumShards == 256
ShardOf(objectKey) == (objectKey[2] * 37 + Len(objectKey[3]) * 11) % NumShards

\* filepath.Base of "photos/<id><ext>"
Base(objectKey) == <<objectKey[2], objectKey[3]>>

\* PhotoPath naming the file by the extension of the key alone
PhotoPathByExtension(objectKey) == <<"photos", 0, objectKey[3]>>

PhotoPath(objectKey) == <<"photos", ShardOf(objectKey), Base(objectKey)>>

\* ThumbPath without the directory of the spec
ThumbPathWithoutSpec(objectKey, spec) ==
    <<"thumbs", <<>>, ShardOf(objectKey), Base(objectKey)>>

ThumbPath(objectKey, spec) == <<"thumbs", spec, ShardOf(objectKey), Base(objectKey)>>

\* fmt.Sprintf("%s.tmp-%d", path, os.Getpid()): the name depends on the path
\* and on the process, not on the goroutine r that calls Save
TmpPath(path, r) == Append(path, <<".tmp-", Pid>>)

----------------------------------------------------------------------------
(* The file system.  A file is its content, the names (directory entries)    *)
(* that refer to it and the descriptors open on it; it lives while it has a  *)
(* name or a descriptor.                                                      *)

\* the descriptors of goroutine r: the file Save writes, the opened source
WriteFd(r) == <<r, "w">>
SrcFd(r) == <<r, "src">>

Named(files, path) == {f \in files : path \in f.names}

\* localcache.Exists(path)
Exists(path) == Named(fs, path) # {}

\* content of the file a path names
FileAt(path) == (CHOOSE f \in Named(fs, path) : TRUE).content

\* content of the file a descriptor is open on
FileOf(fd) == (CHOOSE f \in fs : fd \in f.fds).content

Live(files) == {f \in files : f.names # {} \/ f.fds # {}}

\* os.Create(path) by goroutine r: O_CREATE|O_TRUNC, descriptor fd
CreateFile(files, path, fd) ==
    IF Named(files, path) # {}
    THEN {IF path \in f.names
          THEN [f EXCEPT !.content = <<>>, !.fds = f.fds \cup {fd}]
          ELSE f : f \in files}
    ELSE files \cup {[content |-> <<>>, names |-> {path}, fds |-> {fd}]}

\* os.Open(path)
OpenFile(files, path, fd) ==
    {IF path \in f.names THEN [f EXCEPT !.fds = f.fds \cup {fd}] ELSE f : f \in files}

\* f.Write(chunk) at offset off of the descriptor
WriteFile(files, fd, off, chunk) ==
    {IF fd \in f.fds THEN [f EXCEPT !.content = WriteAt(f.content, off, chunk)]
     ELSE f : f \in files}

\* f.Close()
CloseFile(files, fd) ==
    Live({[f EXCEPT !.fds = f.fds \ {fd}] : f \in files})

\* os.Remove(path)
RemoveFile(files, path) ==
    Live({[f EXCEPT !.names = f.names \ {path}] : f \in files})

\* os.Rename(from, to): the entry "to" now names the file "from" named
RenameFile(files, from, to) ==
    Live({[f EXCEPT !.names = IF from \in f.names
                               THEN (f.names \ {from}) \cup {to}
                               ELSE f.names \ {to}] : f \in files})

----------------------------------------------------------------------------
(* The photos table and the object store *)

NoKey == <<"", 0, "">>

\* a query that ignores the id and returns the rows of every photo
LookupAnyRow(id) == photos

\* select public_url, object_key, content_type from photos where id = $1
Lookup(id) == {row \in photos : row.id = id}

PublicURL(objectKey) == <<"public", objectKey>>

\* S3Uploader.GetObject finds the object
HasObject(objectKey) == objectKey \in DOMAIN store

----------------------------------------------------------------------------
(* Requests *)

IdleReq ==
    [pc |-> "idle", h |-> "none", id |-> 0, sel |-> "", spec |-> <<>>, width |-> 0,
     key |-> NoKey, dbct |-> "", url |-> NoURL, path |-> <<>>,
     out |-> <<>>, outct |-> "", noup |-> FALSE, off |-> 0,
     status |-> 0, body |-> <<>>, cc |-> CCNone, ct |-> "", loc |-> NoURL,
     responses |-> 0,
     lookups |-> 0, gets |-> 0, getFails |-> 0, presigns |-> 0, presignFails |-> 0,
     cacheOps |-> 0, hit |-> FALSE, srcLocal |-> FALSE, decoded |-> FALSE,
     saved |-> "no", diskFault |-> FALSE, decodeFailed |-> FALSE,
     copyFailed |-> FALSE]

\* What a request keeps once its handler has returned: the response and the
\* record of what it did; the handler's locals are gone.
Finished(q) == [q EXCEPT !.pc = "done", !.out = <<>>, !.off = 0]

\* The status line goes out with the first write of a response; what a handler
\* writes after that cannot change it.
FirstStatus(q, status) == IF q.responses = 0 THEN status ELSE q.status

\* c.JSON(status, ...)
RespondJSON(q, status) ==
    Finished([q EXCEPT !.status = FirstStatus(q, status), !.ct = "application/json",
                       !.responses = q.responses + 1])

\* c.Redirect(http.StatusFound, url) after c.Header("Cache-Control", cc)
RespondRedirect(q, url, cc) ==
    Finished([q EXCEPT !.status = FirstStatus(q, 302),
                       !.loc = IF q.responses = 0 THEN url ELSE q.loc,
                       !.cc = IF q.responses = 0 THEN cc ELSE q.cc,
                       !.responses = q.responses + 1])

\* c.Data(http.StatusOK, ct, data) after c.Header("Cache-Control", cc)
RespondData(q, ct, data, cc) ==
    Finished([q EXCEPT !.status = FirstStatus(q, 200), !.body = data, !.ct = ct,
                       !.cc = cc, !.responses = q.responses + 1])

----------------------------------------------------------------------------
(* Content types *)

\* http.DetectContentType on the first bytes of the data
DetectContentType(data) ==
    IF Len(data) = 0 THEN "text/plain; charset=utf-8"
    ELSE CASE data[1][1].fmt = "text" -> "text/plain; charset=utf-8"
           [] data[1][1].fmt = "png" -> "image/png"
           [] data[1][1].fmt = "jpeg" -> "image/jpeg"
           [] data[1][1].fmt = "webp" -> "image/webp"
           [] OTHER -> "application/octet-stream"

\* mime.TypeByExtension for the extensions of the built-in table
TypeByExtension(ext) ==
    CASE ext = ".png" -> "image/png"
      [] ext = ".jpg" -> "image/jpeg"
      [] ext = ".jpeg" -> "image/jpeg"
      [] ext = ".webp" -> "image/webp"
      [] OTHER -> ""

\* http.ServeFile: a Content-Type the handler set is kept; otherwise the type
\* comes from the file name's extension, and from the content when that is unknown.
ServeFileType(preset, path, content) ==
    IF preset # "" THEN preset
    ELSE LET byExt == TypeByExtension(path[Len(path)][2])
         IN  IF byExt # "" THEN byExt ELSE DetectContentType(content)

\* strings.ToLower(filepath.Ext(filename)) for the file names of the model
LowerExt(fileExt) ==
    CASE fileExt = ".PNG" -> ".png"
      [] fileExt = ".HEIC" -> ".heic"
      [] OTHER -> fileExt

\* the switch on the extension when neither the bytes nor the part's header
\* give a type
ExtensionType(ext) ==
    CASE ext \in {".jpg", ".jpeg"} -> "image/jpeg"
      [] ext = ".png" -> "image/png"
      [] ext = ".webp" -> "image/webp"
      [] ext = ".heic" -> "image/heic"
      [] OTHER -> "application/octet-stream"

\* ctype := http.DetectContentType(sniffBuf[:n]) and its fallbacks
UploadContentType(bytes, hdrType, fileExt) ==
    LET sniffed == DetectContentType(bytes)
    IN  IF sniffed \in {"application/octet-stream", "binary/octet-stream",
                        "text/plain; charset=utf-8"}
        THEN IF hdrType # "" THEN hdrType ELSE ExtensionType(LowerExt(fileExt))
        ELSE sniffed

\* strings.HasPrefix(strings.ToLower(ctype), "image/")
IsImageType(ctype) ==
    ctype \in {"image/png", "image/jpeg", "image/webp", "image/heic"}

----------------------------------------------------------------------------
(* Thumbnail spec and selector *)

Digits == <<"0", "1", "2", "3", "4", "5", "6", "7", "8", "9">>

IsDigit(ch) == \E i \in 1..10 : Digits[i] = ch

DigitVal(ch) == (CHOOSE i \in 1..10 : Digits[i] = ch) - 1

\* Go's int: two's complement, wrapping on overflow
IntModulus == 2 ^ IntBits

WrapInt(n) ==
    LET m == n % IntModulus
    IN  IF m >= IntModulus \div 2 THEN m - IntModulus ELSE m

\* for i := 0; i < len(widthStr); i++ { width = width*10 + int(widthStr[i]-'0') }
RECURSIVE AtoiLoop(_, _, _)
AtoiLoop(widthStr, i, width) ==
    IF i > Len(widthStr) THEN width
    ELSE AtoiLoop(widthStr, i + 1, WrapInt(width * 10 + DigitVal(widthStr[i])))

MaxWidth == 4096

\* The validation of GetPhotoThumbnail: [ok, width]
ParseSpec(spec) ==
    IF spec = <<>> \/ spec[1] # "w" THEN [ok |-> FALSE, width |-> 0]
    ELSE LET widthStr == Tail(spec)
         IN  IF widthStr = <<>> THEN [ok |-> FALSE, width |-> 0]
             ELSE IF \E i \in 1..Len(widthStr) : ~IsDigit(widthStr[i])
                  THEN [ok |-> FALSE, width |-> 0]
                  ELSE LET width == AtoiLoop(widthStr, 1, 0)
                       IN  IF width <= 0 \/ width > MaxWidth
                           THEN [ok |-> FALSE, width |-> width]
                           ELSE [ok |-> TRUE, width |-> width]

\* the decimal digits of a positive integer
RECURSIVE FormatInt(_)
FormatInt(n) ==
    IF n < 10 THEN <<Digits[n + 1]>>
    ELSE Append(FormatInt(n \div 10), Digits[(n % 10) + 1])

\* the width printed without the letter of the spec
FormatSpecWithoutPrefix(targetWidth) == FormatInt(targetWidth)

\* fmt.Sprintf("w%d", targetWidth)
FormatSpec(targetWidth) == <<"w">> \o FormatInt(targetWidth)

WidthSmall == 100
WidthMedium == 300
WidthLarge == 1200

\* strings.TrimSpace(strings.ToLower(c.Query("thumbnail")))
TrimLower(sel) ==
    CASE sel = "LARGE" -> "large"
      [] sel = " small " -> "small"
      [] OTHER -> sel

\* the switch of GetPhoto with a default that serves the original
TargetWidthDefaultOriginal(thumbSel) ==
    CASE thumbSel = "" -> WidthMedium
      [] thumbSel = "medium" -> WidthMedium
      [] thumbSel = "small" -> WidthSmall
      [] thumbSel = "large" -> WidthLarge
      [] OTHER -> 0

\* the switch of GetPhoto: 0 stands for the original
TargetWidth(thumbSel) ==
    CASE thumbSel = "" -> WidthMedium
      [] thumbSel = "medium" -> WidthMedium
      [] thumbSel = "small" -> WidthSmall
      [] thumbSel = "large" -> WidthLarge
      [] thumbSel = "original" -> 0
      [] OTHER -> WidthMedium

----------------------------------------------------------------------------
(* Resizing *)

\* height := int(float64(b.Dy()) * (float64(targetWidth) / float64(b.Dx())));
\* if height <= 0 { height = 1 }
\* The quotient width/srcW is rounded to a float64 before it is multiplied, so
\* the product can fall just below a whole number that srcH*width/srcW is
\* exactly, and int() then drops to the number below.  Float64Undershoot is
\* where IEEE-754 double arithmetic does so, for the image sizes of Profiles
\* and every width below the source's: <<srcW, srcH, width>>.
Float64Undershoot == { <<200, 100, 58>>, <<200, 100, 114>>, <<200, 100, 116>> }

ThumbHeight(srcW, srcH, width) ==
    LET exact == (srcH * width) \div srcW
        height == IF <<srcW, srcH, width>> \in Float64Undershoot
                  THEN exact - 1 ELSE exact
    IN  IF height <= 0 THEN 1 ELSE height

\* png.Encode when the source decoded as png, jpeg.Encode otherwise
ThumbFormat(format) == IF format = "png" THEN "png" ELSE "jpeg"

Resize(img, format, width) ==
    [fmt |-> ThumbFormat(format), w |-> width, h |-> ThumbHeight(img.w, img.h, width),
     gen |-> "thumb"]

FormatType(format) == IF format = "png" THEN "image/png" ELSE "image/jpeg"


----------------------------------------------------------------------------
(* Steps shared by GetPhoto and GetPhotoThumbnail.  An operator that ends in *)
(* "Outcomes" gives the set of records a step can leave the request in: one  *)
(* for each answer of the collaborators (object store, disk, client).        *)

\* c.File(path) after c.Header("Cache-Control", ...): http.ServeFile opens the
\* file the path names at that moment and sends what it holds.
RespondFile(q, preset, path, cc) ==
    Finished([q EXCEPT !.status = FirstStatus(q, 200), !.body = FileAt(path),
                       !.ct = ServeFileType(preset, path, FileAt(path)), !.cc = cc,
                       !.responses = q.responses + 1])

\* h.s3.PresignGet: the link, or an error
Presigned(q) == [q EXCEPT !.presigns = q.presigns + 1]
PresignFailed(q) ==
    [q EXCEPT !.presigns = q.presigns + 1, !.presignFails = q.presignFails + 1]

\* a GetObject that failed and is called once more, to fail again
GetFailedTwice(q) == [q EXCEPT !.gets = q.gets + 2, !.getFails = q.getFails + 2]

\* h.s3.GetObject
Got(q) == [q EXCEPT !.gets = q.gets + 1]
GetFailed(q) == [q EXCEPT !.gets = q.gets + 1, !.getFails = q.getFails + 1]

\* PresignOrElseOutcomes without the test of perr: redirects whatever PresignGet said
PresignIgnoringError(q, lastStatus) ==
    IF s3
    THEN { RespondRedirect(Presigned(q), PresignedURL(q.key), CCPrivate),
           RespondRedirect(PresignFailed(q), NoURL, CCPrivate) }
    ELSE { RespondJSON(q, lastStatus) }

\* if h.s3 != nil { if presigned, perr := PresignGet(...); perr == nil { redirect } }
\* c.JSON(lastStatus, ...)
PresignOrElseOutcomes(q, lastStatus) ==
    IF s3
    THEN { RespondRedirect(Presigned(q), PresignedURL(q.key), CCPrivate),
           RespondJSON(PresignFailed(q), lastStatus) }
    ELSE { RespondJSON(q, lastStatus) }

\* From the source bytes to the bytes to cache: image.Decode, then either the
\* original bytes (no upscale) or the resized, re-encoded image.
DecodeOutcomes(q, data) ==
    LET d == Decode(data)
    IN  IF ~d.ok THEN PresignOrElseOutcomes([q EXCEPT !.decodeFailed = TRUE], 400)
        ELSE IF d.img.w <= q.width
             THEN { [q EXCEPT !.pc = "save_create", !.decoded = TRUE,
                              !.out = data, !.noup = TRUE] }
             ELSE { [q EXCEPT !.pc = "save_create", !.decoded = TRUE,
                              !.out = Encode(Resize(d.img, d.format, q.width)),
                              !.outct = FormatType(d.format), !.noup = FALSE] }

\* data, err := io.ReadAll(io.LimitReader(src, 32<<20)), then the decoding
AfterSourceOutcomes(q, bytes) ==
    {RespondJSON(q, 500)} \cup DecodeOutcomes(q, LimitRead(bytes, DecodeLimit))

\* the first response served from an entry, per path
FirstHit(h, path, body) ==
    IF \E x \in h : x[1] = path THEN h ELSE h \cup {<<path, body>>}

\* ThumbLookup serving the entry with the directive of an unpersisted response
ThumbLookupPrivateHit(r, q) ==
    IF Exists(q.path)
    THEN /\ req' = [req EXCEPT ![r] = RespondFile([q EXCEPT !.hit = TRUE], "", q.path,
                                                  CCPrivate)]
         /\ hits' = FirstHit(hits, q.path, FileAt(q.path))
    ELSE /\ req' = [req EXCEPT ![r] = [q EXCEPT !.pc = "src"]]
         /\ UNCHANGED hits

\* if localcache.Exists(thumbPath) { ...; c.File(thumbPath); return }
ThumbLookup(r, q) ==
    IF Exists(q.path)
    THEN /\ req' = [req EXCEPT ![r] = RespondFile([q EXCEPT !.hit = TRUE], "", q.path,
                                                  CCImmutable)]
         /\ hits' = FirstHit(hits, q.path, FileAt(q.path))
    ELSE /\ req' = [req EXCEPT ![r] = [q EXCEPT !.pc = "src"]]
         /\ UNCHANGED hits

\* OriginalMissOutcomes redirecting to the stored public URL even though
\* PresignGet returned a link
OriginalMissToPublicURL(q) ==
    IF s3
    THEN (IF HasObject(q.key)
          THEN { [Got(q) EXCEPT !.pc = "save_create", !.out = store[q.key].body,
                     !.dbct = IF q.dbct = "" THEN store[q.key].ctype ELSE q.dbct] }
          ELSE {})
         \cup { RespondRedirect(Presigned(GetFailed(q)), q.url, CCPrivate),
                RespondRedirect(PresignFailed(GetFailed(q)), q.url, CCImmutable) }
    ELSE { RespondRedirect(q, q.url, CCImmutable) }

\* The original of GetPhoto once the local cache has missed: the first
\* GetObject, or the redirects when there is no body to save.
OriginalMissOutcomes(q) ==
    IF s3
    THEN (IF HasObject(q.key)
          THEN { [Got(q) EXCEPT !.pc = "save_create", !.out = store[q.key].body,
                     !.dbct = IF q.dbct = "" THEN store[q.key].ctype ELSE q.dbct] }
          ELSE {})
         \cup { RespondRedirect(Presigned(GetFailed(q)), PresignedURL(q.key), CCPrivate),
                RespondRedirect(PresignFailed(GetFailed(q)), q.url, CCImmutable) }
    ELSE { RespondRedirect(q, q.url, CCImmutable) }

----------------------------------------------------------------------------
(* GetPhotoThumbnail: GET /photos/:id/thumb/:w *)

GetPhotoThumbnailStart(r, id, spec) ==
    /\ req[r].pc \in {"idle", "done"}
    /\ LET q0 == [IdleReq EXCEPT !.h = "GetPhotoThumbnail", !.id = id, !.spec = spec]
           p == ParseSpec(spec)
           rows == Lookup(id)
       IN  IF ~p.ok
           THEN req' = [req EXCEPT ![r] = RespondJSON(q0, 400)] /\ UNCHANGED hits
           ELSE IF rows = {}
                THEN /\ req' = [req EXCEPT ![r] =
                                   RespondJSON([q0 EXCEPT !.lookups = 1], 404)]
                     /\ UNCHANGED hits
                ELSE LET row == CHOOSE x \in rows : TRUE
                     IN  ThumbLookup(r, [q0 EXCEPT !.lookups = 1, !.width = p.width,
                                             !.key = row.object_key,
                                             !.dbct = row.content_type,
                                             !.url = row.public_url,
                                             !.path = ThumbPath(row.object_key, spec),
                                             !.cacheOps = 1])
    /\ UNCHANGED <<lim, s3, maxBytes, photos, store, fs, up>>

----------------------------------------------------------------------------
(* GetPhoto: GET /photos/:id?thumbnail=... *)

\* GetPhoto that never looks for the cached original and fetches it each time
GetPhotoAlwaysFetches(r, id, sel) ==
    /\ req[r].pc \in {"idle", "done"}
    /\ LET q0 == [IdleReq EXCEPT !.h = "GetPhoto", !.id = id, !.sel = sel,
                                 !.lookups = 1]
           rows == Lookup(id)
           targetWidth == TargetWidth(TrimLower(sel))
       IN  IF rows = {}
           THEN req' = [req EXCEPT ![r] = RespondJSON(q0, 404)] /\ UNCHANGED hits
           ELSE LET row == CHOOSE x \in rows : TRUE
                    q1 == [q0 EXCEPT !.width = targetWidth, !.key = row.object_key,
                                     !.dbct = row.content_type, !.url = row.public_url,
                                     !.cacheOps = 1]
                IN  IF targetWidth > 0
                    THEN ThumbLookup(r, [q1 EXCEPT
                             !.spec = FormatSpec(targetWidth),
                             !.path = ThumbPath(row.object_key, FormatSpec(targetWidth))])
                    ELSE /\ \E q3 \in OriginalMissOutcomes(
                                    [q1 EXCEPT !.path = PhotoPath(row.object_key)]) :
                                req' = [req EXCEPT ![r] = q3]
                         /\ UNCHANGED hits
    /\ UNCHANGED <<lim, s3, maxBytes, photos, store, fs, up>>

GetPhotoStart(r, id, sel) ==
    /\ req[r].pc \in {"idle", "done"}
    /\ LET q0 == [IdleReq EXCEPT !.h = "GetPhoto", !.id = id, !.sel = sel,
                                 !.lookups = 1]
           rows == Lookup(id)
           targetWidth == TargetWidth(TrimLower(sel))
       IN  IF rows = {}
           THEN req' = [req EXCEPT ![r] = RespondJSON(q0, 404)] /\ UNCHANGED hits
           ELSE LET row == CHOOSE x \in rows : TRUE
                    q1 == [q0 EXCEPT !.width = targetWidth, !.key = row.object_key,
                                     !.dbct = row.content_type, !.url = row.public_url,
                                     !.cacheOps = 1]
                IN  IF targetWidth > 0
                    THEN ThumbLookup(r, [q1 EXCEPT
                             !.spec = FormatSpec(targetWidth),
                             !.path = ThumbPath(row.object_key, FormatSpec(targetWidth))])
                    ELSE LET q2 == [q1 EXCEPT !.path = PhotoPath(row.object_key)]
                         IN  IF Exists(q2.path)
                             THEN /\ req' = [req EXCEPT ![r] =
                                      RespondFile([q2 EXCEPT !.hit = TRUE], q2.dbct,
                                                  q2.path, CCImmutable)]
                                  /\ hits' = FirstHit(hits, q2.path, FileAt(q2.path))
                             ELSE /\ \E q3 \in OriginalMissOutcomes(q2) :
                                         req' = [req EXCEPT ![r] = q3]
                                  /\ UNCHANGED hits
    /\ UNCHANGED <<lim, s3, maxBytes, photos, store, fs, up>>

----------------------------------------------------------------------------
(* The source image of a thumbnail that missed the cache *)

\* What h.s3.GetObject and the steps after it make of a thumbnail request
\* that has no local original: the bytes to decode, the presigned redirect
\* when the get fails, or 503.
RemoteSourceOutcomes(q) ==
    IF s3
    THEN (IF HasObject(q.key)
          THEN AfterSourceOutcomes(Got(q), store[q.key].body)
          ELSE {})
         \cup PresignOrElseOutcomes(GetFailed(q), 503)
    ELSE PresignOrElseOutcomes(q, 503)

\* OpenSource asking the object store before it looks at the local original
OpenSourceStoreFirst(r) ==
    /\ req[r].pc = "src"
    /\ LET q == [req[r] EXCEPT !.cacheOps = req[r].cacheOps + 1]
           srcPath == PhotoPath(q.key)
       IN  \/ /\ s3 /\ HasObject(q.key)
              /\ \E q2 \in AfterSourceOutcomes(Got(q), store[q.key].body) :
                     req' = [req EXCEPT ![r] = q2]
              /\ UNCHANGED fs
           \/ /\ Exists(srcPath)
              /\ req' = [req EXCEPT ![r] = [(IF s3 THEN GetFailed(q) ELSE q) EXCEPT
                                               !.pc = "read", !.srcLocal = TRUE]]
              /\ fs' = OpenFile(fs, srcPath, SrcFd(r))
           \/ /\ \E q2 \in PresignOrElseOutcomes(IF s3 THEN GetFailed(q) ELSE q, 503) :
                     req' = [req EXCEPT ![r] = q2]
              /\ UNCHANGED fs
    /\ UNCHANGED <<lim, s3, maxBytes, photos, store, hits, up>>

\* Local original first (localcache.Exists, os.Open), else h.s3.GetObject,
\* else the presigned redirect, else 503.
OpenSource(r) ==
    /\ req[r].pc = "src"
    /\ LET q == [req[r] EXCEPT !.cacheOps = req[r].cacheOps + 1]
           srcPath == PhotoPath(q.key)
           remote == RemoteSourceOutcomes(q)
       IN  \/ /\ Exists(srcPath)
              /\ req' = [req EXCEPT ![r] = [q EXCEPT !.pc = "read", !.srcLocal = TRUE]]
              /\ fs' = OpenFile(fs, srcPath, SrcFd(r))
           \/ /\ \E q2 \in remote : req' = [req EXCEPT ![r] = q2]
              /\ UNCHANGED fs
    /\ UNCHANGED <<lim, s3, maxBytes, photos, store, hits, up>>

\* io.ReadAll(io.LimitReader(src, 32<<20)) on the opened local original; the
\* deferred src.Close() runs when the handler returns
ReadSource(r) ==
    /\ req[r].pc = "read"
    /\ \E q2 \in AfterSourceOutcomes(req[r], FileOf(SrcFd(r))) :
           req' = [req EXCEPT ![r] = q2]
    /\ fs' = CloseFile(fs, SrcFd(r))
    /\ UNCHANGED <<lim, s3, maxBytes, photos, store, hits, up>>

----------------------------------------------------------------------------
(* What the handlers do when localcache.Save has returned *)

\* GetPhoto's original after a failed Save: fetch again and stream without
\* caching; when that fails too, the presigned link, then the public URL.
RedirectOutcomes(q) ==
    { RespondRedirect(Presigned(q), PresignedURL(q.key), CCPrivate),
      RespondRedirect(PresignFailed(q), q.url, CCImmutable) }

\* RefetchOutcomes without the second GetObject: the error of Save is answered
RefetchGivesUp(q) == { RespondJSON(q, 500) }

RefetchOutcomes(q) ==
    LET headers == [Got(q) EXCEPT !.ct = q.dbct, !.cc = CCPrivate]
        body == store[q.key].body
    IN  (IF HasObject(q.key)
         THEN \* io.Copy(c.Writer, rc2) succeeded; c.Status(http.StatusOK)
              { Finished([headers EXCEPT !.status = 200, !.body = body,
                                         !.responses = 1]) }
              \* rc2 failed before anything was written
              \cup RedirectOutcomes([headers EXCEPT !.copyFailed = TRUE])
              \* the copy failed after the first chunks had gone out
              \cup RedirectOutcomes([headers EXCEPT !.status = 200,
                                        !.copyFailed = TRUE,
                                        !.body = SubSeq(body, 1, Len(body) - 1),
                                        !.responses = 1])
         ELSE {})
        \cup RedirectOutcomes(GetFailed(q))

\* AfterSaveOutcomes with the error of Save surfaced as a 500 for thumbnails
AfterSaveSurfacingError(q, ok) ==
    LET q1 == [q EXCEPT !.saved = IF ok THEN "yes" ELSE "failed"]
    IN  IF q.width > 0
        THEN IF ~ok THEN { RespondJSON(q1, 500) }
             ELSE IF q.noup THEN { [q1 EXCEPT !.pc = "serve"] }
                  ELSE { RespondData(q1, q.outct, q.out, CCImmutable) }
        ELSE IF ok THEN { [q1 EXCEPT !.pc = "serve"] }
             ELSE RefetchOutcomes(q1)

\* What each handler does with the result of localcache.Save
AfterSaveOutcomes(q, ok) ==
    LET q1 == [q EXCEPT !.saved = IF ok THEN "yes" ELSE "failed"]
    IN  IF q.width > 0
        THEN IF q.noup
             THEN IF ok THEN { [q1 EXCEPT !.pc = "serve"] }
                  ELSE { RespondData(q1,
                             IF q.h = "GetPhoto" /\ q.dbct = ""
                             THEN DetectContentType(q.out) ELSE q.dbct,
                             q.out, CCNone) }
             ELSE { RespondData(q1, q.outct, q.out,
                                IF ok THEN CCImmutable ELSE CCPrivate) }
        ELSE IF ok THEN { [q1 EXCEPT !.pc = "serve"] }
             ELSE RefetchOutcomes(q1)

\* c.File(path) after a successful Save
ServeFile(r) ==
    /\ req[r].pc = "serve"
    /\ Exists(req[r].path)
    /\ req' = [req EXCEPT ![r] =
                  RespondFile(req[r], IF req[r].width > 0 THEN "" ELSE req[r].dbct,
                              req[r].path, CCImmutable)]
    /\ UNCHANGED <<lim, s3, maxBytes, photos, store, fs, hits, up>>

----------------------------------------------------------------------------
(* localcache.Save(path, r), one system call per step *)

\* EnsureDir(path) and os.Create(tmp); an error of either ends Save at once
SaveCreate(r) ==
    /\ req[r].pc = "save_create"
    /\ LET q == req[r]
       IN  \/ /\ fs' = CreateFile(fs, TmpPath(q.path, r), WriteFd(r))
              /\ req' = [req EXCEPT ![r] =
                            [q EXCEPT !.pc = IF Len(q.out) = 0 THEN "save_close"
                                             ELSE "save_write",
                                      !.off = 0]]
           \/ /\ \E q2 \in AfterSaveOutcomes([q EXCEPT !.diskFault = TRUE], FALSE) :
                     req' = [req EXCEPT ![r] = q2]
              /\ UNCHANGED fs
    /\ UNCHANGED <<lim, s3, maxBytes, photos, store, hits, up>>

\* io.Copy(f, r): one Write per chunk at the descriptor's offset; after an
\* error of the copy Save closes the file and goes on to remove it
SaveWrite(r) ==
    /\ req[r].pc = "save_write"
    /\ LET q == req[r]
       IN  \/ /\ fs' = WriteFile(fs, WriteFd(r), q.off, q.out[q.off + 1])
              /\ req' = [req EXCEPT ![r] =
                            [q EXCEPT !.off = q.off + 1,
                                      !.pc = IF q.off + 1 = Len(q.out)
                                             THEN "save_close" ELSE "save_write"]]
           \/ /\ fs' = CloseFile(fs, WriteFd(r))
              /\ req' = [req EXCEPT ![r] = [q EXCEPT !.pc = "save_remove",
                                                     !.diskFault = TRUE]]
    /\ UNCHANGED <<lim, s3, maxBytes, photos, store, hits, up>>

\* cerr := f.Close()
SaveClose(r) ==
    /\ req[r].pc = "save_close"
    /\ fs' = CloseFile(fs, WriteFd(r))
    /\ \/ req' = [req EXCEPT ![r] = [req[r] EXCEPT !.pc = "save_rename"]]
       \/ req' = [req EXCEPT ![r] = [req[r] EXCEPT !.pc = "save_remove",
                                                   !.diskFault = TRUE]]
    /\ UNCHANGED <<lim, s3, maxBytes, photos, store, hits, up>>

\* os.Rename(tmp, path): fails when tmp is gone, or for the disk's own reasons
SaveRename(r) ==
    /\ req[r].pc = "save_rename"
    /\ LET q == req[r]
           tmp == TmpPath(q.path, r)
       IN  \/ /\ Named(fs, tmp) # {}
              /\ fs' = RenameFile(fs, tmp, q.path)
              /\ \E q2 \in AfterSaveOutcomes(q, TRUE) : req' = [req EXCEPT ![r] = q2]
           \/ /\ req' = [req EXCEPT ![r] =
                            [q EXCEPT !.pc = "save_remove",
                                      !.diskFault = q.diskFault \/ Named(fs, tmp) # {}]]
              /\ UNCHANGED fs
    /\ UNCHANGED <<lim, s3, maxBytes, photos, store, hits, up>>

\* Save returning the error and leaving its temporary file behind
SaveReturnKeepingTmp(r) ==
    /\ req[r].pc = "save_remove"
    /\ \E q2 \in AfterSaveOutcomes(req[r], FALSE) : req' = [req EXCEPT ![r] = q2]
    /\ UNCHANGED <<lim, s3, maxBytes, photos, store, fs, hits, up>>

\* _ = os.Remove(tmp), then Save returns the error
SaveRemove(r) ==
    /\ req[r].pc = "save_remove"
    /\ fs' = RemoveFile(fs, TmpPath(req[r].path, r))
    /\ \E q2 \in AfterSaveOutcomes(req[r], FALSE) : req' = [req EXCEPT ![r] = q2]
    /\ UNCHANGED <<lim, s3, maxBytes, photos, store, hits, up>>

----------------------------------------------------------------------------
(* middleware.NewWriteRequestCache: the write rate limiter.  The requests of  *)
(* a run come from one client and one path, so that a map holds one counter. *)

\* write requests that enter the limiter in a run
MaxWrites == 3
\* background refreshes in a run
MaxRefresh == 1
\* writeRateLimitCount
LimitCount == 1

\* the counts loadRequestPattern may find in request_logs
LoadedCounts == {0, 1}

\* The limiter after NewWriteRequestCache: every map that cache ever held
\* (maps[k] is the counter of the k-th), the one cache.Load() returns, and for
\* each serving goroutine where it is in the returned function, the map it
\* loaded and the value it read from it.
NoLimiter ==
    [maps |-> <<0>>, loaded |-> <<0>>, incs |-> <<0>>, cur |-> 1,
     stale |-> FALSE, pending |-> 0, refreshed |-> 0, started |-> 0,
     g |-> [r \in Req |-> [pc |-> "idle", gen |-> 0, tmp |-> 0, over |-> FALSE]],
     crashed |-> FALSE]

\* goroutine r is inside rp.patterns[pat] += 1 on map k: it has read the
\* counter and not yet written it
InIncrement(r, k) == lim.g[r].pc = "write" /\ lim.g[r].gen = k

\* rp := ensureFresh(): the current map, and a background refresh when it is old
LimiterEnter(r) ==
    /\ ~lim.crashed
    /\ lim.g[r].pc = "idle" /\ lim.started < MaxWrites
    /\ LET spawn == lim.stale /\ lim.pending + lim.refreshed < MaxRefresh
       IN  lim' = [lim EXCEPT !.g[r] = [pc |-> "read", gen |-> lim.cur, tmp |-> 0,
                                        over |-> FALSE],
                              !.started = lim.started + 1,
                              !.pending = IF spawn THEN lim.pending + 1
                                          ELSE lim.pending]
    /\ UNCHANGED <<s3, maxBytes, photos, store, fs, req, hits, up>>

\* rp.patterns[pat] += 1, the read of the map
LimiterRead(r) ==
    /\ ~lim.crashed
    /\ lim.g[r].pc = "read"
    /\ lim' = [lim EXCEPT !.g[r].pc = "write", !.g[r].tmp = lim.maps[lim.g[r].gen]]
    /\ UNCHANGED <<s3, maxBytes, photos, store, fs, req, hits, up>>

\* rp.patterns[pat] += 1, the write of the map; the runtime may stop the
\* process ("concurrent map writes") when another goroutine is in the map
LimiterWrite(r) ==
    /\ ~lim.crashed
    /\ lim.g[r].pc = "write"
    /\ LET k == lim.g[r].gen
           raced == \E o \in Req \ {r} : InIncrement(o, k)
       IN  \E crash \in (IF raced THEN BOOLEAN ELSE {FALSE}) :
               lim' = [lim EXCEPT !.g[r].pc = IF crash THEN "write" ELSE "test",
                                  !.maps[k] = IF crash THEN lim.maps[k]
                                              ELSE lim.g[r].tmp + 1,
                                  !.incs[k] = IF crash THEN lim.incs[k]
                                              ELSE lim.incs[k] + 1,
                                  !.crashed = crash]
    /\ UNCHANGED <<s3, maxBytes, photos, store, fs, req, hits, up>>

\* return rp.patterns[pat] > writeRateLimitCount
LimiterTest(r) ==
    /\ ~lim.crashed
    /\ lim.g[r].pc = "test"
    /\ lim' = [lim EXCEPT !.g[r].pc = "idle",
                          !.g[r].over = lim.maps[lim.g[r].gen] > LimitCount]
    /\ UNCHANGED <<s3, maxBytes, photos, store, fs, req, hits, up>>

\* time.Since(v.loadedAt) reaches refreshInterval
IntervalPasses ==
    /\ ~lim.crashed /\ ~lim.stale
    /\ lim' = [lim EXCEPT !.stale = TRUE]
    /\ UNCHANGED <<s3, maxBytes, photos, store, fs, req, hits, up>>

\* go func() { cache.Store(loadRequestPattern(...)) }(): a new map, filled
\* from request_logs by the background goroutine alone, replaces the current
RefreshStore ==
    /\ ~lim.crashed /\ lim.pending > 0
    /\ \E c \in LoadedCounts :
           lim' = [lim EXCEPT !.maps = Append(lim.maps, c),
                              !.loaded = Append(lim.loaded, c),
                              !.incs = Append(lim.incs, 0),
                              !.cur = Len(lim.maps) + 1,
                              !.stale = FALSE,
                              !.pending = lim.pending - 1,
                              !.refreshed = lim.refreshed + 1]
    /\ UNCHANGED <<s3, maxBytes, photos, store, fs, req, hits, up>>

----------------------------------------------------------------------------
(* The retrieval specification: one stored photo, MaxReq concurrent requests *)

\* the photos a run may hold: file extension of the key, stored image, bytes
\* after the image
Profiles ==
    { [ext |-> ".png", img |-> [fmt |-> "png", w |-> 200, h |-> 100, gen |-> "orig"],
       pad |-> 0],
      [ext |-> ".jpg", img |-> [fmt |-> "jpeg", w |-> 2000, h |-> 1000, gen |-> "orig"],
       pad |-> 0],
      [ext |-> ".heic", img |-> [fmt |-> "heic", w |-> 2000, h |-> 1000, gen |-> "orig"],
       pad |-> 0] }

\* a photo whose object is longer than the decode limit of the thumbnails
BigProfiles ==
    { [ext |-> ".png", img |-> [fmt |-> "png", w |-> 200, h |-> 100, gen |-> "big"],
       pad |-> DecodeLimit - NChunks + 1] }

\* the bytes of the stored object
Body(pr) == Encode(pr.img) \o Padding(pr.img, pr.pad)

KnownId == 1
UnknownId == 2
\* the id uuid.NewV7() gives an upload made while photos are retrieved
NewId == 3

KeyOf(id, ext) == <<"photos", id, ext>>

NoUpload ==
    [n |-> 0, status |-> 0, key |-> NoKey, sent |-> <<>>, putOk |-> FALSE,
     hdr |-> "", ext |-> "", ctype |-> ""]

InitPhoto(pr) ==
    /\ photos = { [id |-> KnownId, object_key |-> KeyOf(KnownId, pr.ext),
                   content_type |-> UploadContentType(Body(pr), "", pr.ext),
                   public_url |-> PublicURL(KeyOf(KnownId, pr.ext))] }
    /\ store = [k \in {KeyOf(KnownId, pr.ext)} |->
                   [body |-> Body(pr),
                    ctype |-> UploadContentType(Body(pr), "", pr.ext)]]

\* The server after handlers.New, holding one photo of the given profiles
\* and an empty cache directory.
InitWith(profiles) ==
    /\ s3 \in BOOLEAN
    /\ maxBytes = 0
    /\ \E pr \in profiles : InitPhoto(pr)
    /\ fs = {}
    /\ req = [r \in Req |-> IdleReq]
    /\ hits = {}
    /\ up = NoUpload
    /\ lim = NoLimiter

Init == InitWith(Profiles \cup BigProfiles)

InitConc == InitWith(Profiles)

\* the requests a client may send
Ids == {KnownId, UnknownId}

Selectors == {"", "medium", "small", "large", "original", "bogus", "LARGE", " small "}

SpecInputs ==
    { <<"w", "1", "0", "0">>, <<"w", "3", "0", "0">>, <<"w", "1", "2", "0", "0">>,
      <<"w", "0">>, <<"a", "b", "c">>, <<"w", "9", "9", "9", "9", "9">> }

\* every step of goroutine r but the start of a request
Continue(r) ==
    \/ OpenSource(r)
    \/ ReadSource(r)
    \/ SaveCreate(r)
    \/ SaveWrite(r)
    \/ SaveClose(r)
    \/ SaveRename(r)
    \/ SaveRemove(r)
    \/ ServeFile(r)

\* One goroutine serves one request after the other, of every kind.
Next ==
    \/ \E id \in Ids, spec \in SpecInputs : GetPhotoThumbnailStart(1, id, spec)
    \/ \E id \in Ids, sel \in Selectors : GetPhotoStart(1, id, sel)
    \/ Continue(1)

Spec == Init /\ [][Next]_vars

----------------------------------------------------------------------------
(* The concurrent specification: MaxReq goroutines serve requests for the    *)
(* same photo at the same time: its original and its medium thumbnail.       *)

ConcSelectors == {"original"}
ConcSpecInputs == { <<"w", "3", "0", "0">> }

NextConc ==
    \E r \in Req :
        \/ \E spec \in ConcSpecInputs : GetPhotoThumbnailStart(r, KnownId, spec)
        \/ \E sel \in ConcSelectors : GetPhotoStart(r, KnownId, sel)
        \/ Continue(r)

SpecConc == InitConc /\ [][NextConc]_vars

\* The resizing specification: thumbnails of widths whose height is not a
\* whole number before int(), or is one that float64 misses.
ResizeInputs ==
    { <<"w", "1", "0", "0">>, <<"w", "1", "5">>, <<"w", "5", "8">>, <<"w", "3">> }

NextResize ==
    \/ GetPhotoStart(1, KnownId, "original")
    \/ \E spec \in ResizeInputs : GetPhotoThumbnailStart(1, KnownId, spec)
    \/ Continue(1)

SpecResize == Init /\ [][NextResize]_vars

\* The content-type specification: the photo may be a JPEG that was uploaded
\* under a file name ending in .png (the key keeps the extension of the name,
\* the content type is sniffed); requests come one after the other, the last
\* of them served by goroutine 2 so that it can be compared with the one before.
MismatchProfiles ==
    { [ext |-> ".png", img |-> [fmt |-> "jpeg", w |-> 2000, h |-> 1000, gen |-> "orig"],
       pad |-> 0] }

TypeSpecInputs == { <<"w", "3", "0", "0">> }
TypeSelectors == {"original", "medium"}

InitTypes == InitWith(Profiles \cup MismatchProfiles)

NextTypes ==
    \/ /\ req[1].pc \in {"idle", "done"} /\ req[2].pc = "idle"
       /\ \/ \E spec \in TypeSpecInputs : GetPhotoThumbnailStart(1, KnownId, spec)
          \/ \E sel \in TypeSelectors : GetPhotoStart(1, KnownId, sel)
    \/ /\ req[1].pc = "done" /\ req[2].pc = "idle"
       /\ \/ \E spec \in TypeSpecInputs : GetPhotoThumbnailStart(2, KnownId, spec)
          \/ \E sel \in TypeSelectors : GetPhotoStart(2, KnownId, sel)
    \/ Continue(1)
    \/ Continue(2)

SpecTypes == InitTypes /\ [][NextTypes]_vars

----------------------------------------------------------------------------
(* UploadPhoto: POST /photos *)

\* key := "photos/" + newID.String() + ext, ".bin" when the name has no extension
UploadKey(id, fileExt) ==
    KeyOf(id, IF LowerExt(fileExt) = "" THEN ".bin" ELSE LowerExt(fileExt))

\* S3Uploader.Upload: the body is read through io.LimitedReader{R: r, N:
\* u.maxBytes + 1}, which ends the stream after N bytes without an error.
\* The put stores what it read, or fails and stores nothing.
PutOutcomes(objectKey, r, contentType) ==
    LET body == LimitRead(r, maxBytes + 1)
    IN  { [ok |-> TRUE, url |-> PublicURL(objectKey),
           store |-> (objectKey :> [body |-> body, ctype |-> contentType]) @@ store],
          [ok |-> FALSE, url |-> NoURL, store |-> store] }

\* InsertOutcomes where the statement that returned an error had been committed
InsertCommittedOnError(row) ==
    { [ok |-> TRUE, photos |-> photos \cup {row}],
      [ok |-> FALSE, photos |-> photos \cup {row}] }

\* h.pool.Exec(insert into photos ...): the row is there, or an error and no row
InsertOutcomes(row) ==
    { [ok |-> TRUE, photos |-> photos \cup {row}],
      [ok |-> FALSE, photos |-> photos] }

\* the answer of UploadPhoto when it returns before the put
Rejected(u, status) ==
    [up |-> [n |-> up.n + 1, status |-> status, key |-> NoKey, sent |-> u.bytes,
             putOk |-> FALSE, hdr |-> "", ext |-> "", ctype |-> ""],
     store |-> store, photos |-> photos]

\* the answer of UploadPhoto when it returns after it resolved the content type
RejectedTyped(u, status, ctype) ==
    [Rejected(u, status) EXCEPT !.up.hdr = u.hdrType, !.up.ext = u.fileExt,
                                !.up.ctype = ctype]

\* From the put to the response: 500 when the put fails, the insert, 500 when
\* it fails, 201.
StoreAndInsertOutcomes(u, id, objectKey, ctype) ==
    UNION { IF ~put.ok
            THEN { [up |-> [n |-> up.n + 1, status |-> 500, key |-> objectKey,
                            sent |-> u.bytes, putOk |-> FALSE,
                            hdr |-> u.hdrType, ext |-> u.fileExt, ctype |-> ctype],
                    store |-> put.store, photos |-> photos] }
            ELSE { [up |-> [n |-> up.n + 1, status |-> IF ins.ok THEN 201 ELSE 500,
                            key |-> objectKey, sent |-> u.bytes, putOk |-> TRUE,
                            hdr |-> u.hdrType, ext |-> u.fileExt, ctype |-> ctype],
                    store |-> put.store, photos |-> ins.photos]
                   : ins \in InsertOutcomes([id |-> id, object_key |-> objectKey,
                                             content_type |-> ctype,
                                             public_url |-> put.url]) }
            : put \in PutOutcomes(objectKey, u.bytes, ctype) }

\* The whole handler for the request u: [multipart, formOk, hasFile, fileExt,
\* hdrType, bytes].  fileHeader.Size is the number of bytes the multipart
\* parser read for the part.
UploadOutcomes(u) ==
    LET size == Len(u.bytes)
        ctype == UploadContentType(u.bytes, u.hdrType, u.fileExt)
        id == up.n + 1
    IN  IF ~s3 THEN { Rejected(u, 503) }
        ELSE IF ~u.multipart \/ ~u.formOk \/ ~u.hasFile THEN { Rejected(u, 400) }
        ELSE IF maxBytes > 0 /\ size > 0 /\ size > maxBytes THEN { Rejected(u, 413) }
        ELSE \* fileHeader.Open() may fail
             { Rejected(u, 400) }
             \cup (IF ~IsImageType(ctype) THEN { RejectedTyped(u, 400, ctype) }
                   ELSE \* uuid.NewV7() may fail
                        { RejectedTyped(u, 500, ctype) }
                        \cup StoreAndInsertOutcomes(u, id, UploadKey(id, u.fileExt),
                                                    ctype))

UploadPhoto(u) ==
    /\ up.n < MaxUploads
    /\ \E o \in UploadOutcomes(u) :
           /\ up' = o.up
           /\ store' = o.store
           /\ photos' = o.photos
    /\ UNCHANGED <<lim, s3, maxBytes, fs, req, hits>>

\* the files a client uploads
TextFile == [fmt |-> "text", w |-> 0, h |-> 0, gen |-> "orig"]

UploadStreams == { Encode(pr.img) : pr \in Profiles } \cup { Encode(TextFile) }

\* a request that fails one test of the handler is counted once: what the
\* later tests would have seen of it is never looked at
UploadInputs ==
    { u \in [multipart : BOOLEAN, formOk : BOOLEAN, hasFile : BOOLEAN,
             fileExt : {".png", ".HEIC", "", ".txt"},
             hdrType : {"", "image/heic", "text/plain", "application/octet-stream"},
             bytes : UploadStreams] :
        /\ ~u.multipart => u.formOk /\ u.hasFile
        /\ ~u.formOk => u.hasFile }

\* maxBytes := int64(cfg.MaxUploadMB) * 1024 * 1024, in the unit of the model
\* (the chunk); strconv.Atoi gives 0 for a MAX_UPLOAD_MB that is not a number
MaxBytesValues == {0, 1, NChunks}

InitUpload ==
    /\ s3 \in BOOLEAN
    /\ maxBytes \in MaxBytesValues
    /\ photos = {}
    /\ store = <<>>
    /\ fs = {}
    /\ req = [r \in Req |-> IdleReq]
    /\ hits = {}
    /\ up = NoUpload
    /\ lim = NoLimiter

NextUpload == \E u \in UploadInputs : UploadPhoto(u)

SpecUpload == InitUpload /\ [][NextUpload]_vars

----------------------------------------------------------------------------
(* The calls to the object store as two steps, the call and its return, for  *)
(* an object store that may never answer.                                     *)

\* GetPhotoThumbnail with no local original: h.s3.GetObject(c.Request.Context(),
\* objectKey) is called; the context is the request's and carries no deadline
CallGetObject(r) ==
    /\ req[r].pc = "src"
    /\ s3 /\ ~Exists(PhotoPath(req[r].key))
    /\ req' = [req EXCEPT ![r] = [req[r] EXCEPT !.pc = "get_wait",
                                               !.cacheOps = req[r].cacheOps + 1]]
    /\ UNCHANGED <<lim, s3, maxBytes, photos, store, fs, hits, up>>

\* GetObject returns, with the body or with an error
GetObjectReturns(r) ==
    /\ req[r].pc = "get_wait"
    /\ \E q2 \in RemoteSourceOutcomes(req[r]) : req' = [req EXCEPT ![r] = q2]
    /\ UNCHANGED <<lim, s3, maxBytes, photos, store, fs, hits, up>>

\* the upload of the specification: a png file named x.png
HangUpload ==
    [multipart |-> TRUE, formOk |-> TRUE, hasFile |-> TRUE, fileExt |-> ".png",
     hdrType |-> "",
     bytes |-> Encode([fmt |-> "png", w |-> 200, h |-> 100, gen |-> "orig"])]

\* an upload is in flight: h.s3.Upload(ctx, ...) was called and has not returned
Uploading == up.n > 0 /\ up.status = 0

\* UploadPhoto up to the call h.s3.Upload(ctx, key, uploadReader, ctype), ctx
\* made by context.WithTimeout(c.Request.Context(), 60*time.Second)
CallUpload ==
    /\ up.n = 0 /\ s3
    /\ ~(maxBytes > 0 /\ Len(HangUpload.bytes) > maxBytes)
    /\ up' = [n |-> 1, status |-> 0, key |-> UploadKey(NewId, HangUpload.fileExt),
              sent |-> HangUpload.bytes, putOk |-> FALSE,
              hdr |-> HangUpload.hdrType, ext |-> HangUpload.fileExt,
              ctype |-> UploadContentType(HangUpload.bytes, HangUpload.hdrType,
                                          HangUpload.fileExt)]
    /\ UNCHANGED <<lim, s3, maxBytes, photos, store, fs, req, hits>>

\* Upload returns: the rest of UploadPhoto
UploadReturns ==
    /\ Uploading
    /\ \E o \in StoreAndInsertOutcomes(HangUpload, NewId, up.key,
                    UploadContentType(HangUpload.bytes, HangUpload.hdrType,
                                      HangUpload.fileExt)) :
           /\ up' = [o.up EXCEPT !.n = up.n]
           /\ store' = o.store
           /\ photos' = o.photos
    /\ UNCHANGED <<lim, s3, maxBytes, fs, req, hits>>

\* the deadline of ctx passes: Upload returns context.DeadlineExceeded, 500
UploadTimeout ==
    /\ Uploading
    /\ up' = [up EXCEPT !.status = 500]
    /\ UNCHANGED <<lim, s3, maxBytes, photos, store, fs, req, hits>>

NextHang ==
    \/ /\ req[1].pc = "idle"
       /\ \E spec \in SpecInputs : GetPhotoThumbnailStart(1, KnownId, spec)
    \/ /\ req[1].pc = "idle"
       /\ \E sel \in {"original", "small"} : GetPhotoStart(1, KnownId, sel)
    \/ CallGetObject(1)
    \/ GetObjectReturns(1)
    \/ SaveCreate(1) \/ SaveWrite(1) \/ SaveClose(1) \/ SaveRename(1)
    \/ SaveRemove(1) \/ ServeFile(1)
    \/ CallUpload
    \/ UploadReturns
    \/ UploadTimeout

\* The handler's own steps always go on and a deadline that was set passes;
\* nothing makes the object store answer.
FairHang ==
    /\ WF_vars(CallGetObject(1))
    /\ WF_vars(SaveCreate(1)) /\ WF_vars(SaveWrite(1)) /\ WF_vars(SaveClose(1))
    /\ WF_vars(SaveRename(1)) /\ WF_vars(SaveRemove(1)) /\ WF_vars(ServeFile(1))
    /\ WF_vars(UploadTimeout)

SpecHang == Init /\ [][NextHang]_vars /\ FairHang

\* The validation specification: the original may be fetched first, then one
\* thumbnail request is sent with any spec string over a small alphabet ("w"
\* is also the character that is not a digit).
SpecAlphabet == {"w", "0", "6"}

ValidateInputs == UNION { [1..n -> SpecAlphabet] : n \in 1..(MaxDigits + 1) }

NextValidate ==
    \/ /\ req[1].pc = "idle"
       /\ GetPhotoStart(1, KnownId, "original")
    \/ /\ req[1].pc = "idle" \/ (req[1].pc = "done" /\ req[1].h = "GetPhoto")
       /\ \E id \in Ids, spec \in ValidateInputs : GetPhotoThumbnailStart(1, id, spec)
    \/ Continue(1)

SpecValidate == Init /\ [][NextValidate]_vars

\* The limiter specification: MaxReq goroutines serve write requests of one
\* client while the map is refreshed in the background.
InitLimiter ==
    /\ s3 = FALSE
    /\ maxBytes = 0
    /\ photos = {}
    /\ store = <<>>
    /\ fs = {}
    /\ req = [r \in Req |-> IdleReq]
    /\ hits = {}
    /\ up = NoUpload
    /\ lim = NoLimiter

NextLimiter ==
    \/ \E r \in Req : \/ LimiterEnter(r)
                       \/ LimiterRead(r)
                       \/ LimiterWrite(r)
                       \/ LimiterTest(r)
    \/ IntervalPasses
    \/ RefreshStore

SpecLimiter == InitLimiter /\ [][NextLimiter]_vars

----------------------------------------------------------------------------
(* Properties of the local cache under concurrency *)

\* the entries Save renames into place, as opposed to its temporary files
IsFinalPath(path) ==
    \/ path[1] = "photos" /\ Len(path) = 3
    \/ path[1] = "thumbs" /\ Len(path) = 4

\* the content is all the chunks of one encoded image
Complete(content) == Len(content) > 0 /\ content = Encode(content[1][1])

\* C1: whatever the interleaving of concurrent Save calls to one path, a file
\* that a reader finds at a final cache path (Exists, then read) holds all the
\* saved bytes: it is never empty, truncated or otherwise partial.
C1_ReadersSeeOnlyCompleteFiles ==
    \A f \in fs : \A path \in f.names : IsFinalPath(path) => Complete(f.content)

\* what a request running alone caches at ThumbPath(key, spec) for width
ExpectedThumb(objectKey, width) ==
    LET body == store[objectKey].body
        d == Decode(body)
    IN  IF d.img.w <= width THEN body ELSE Encode(Resize(d.img, d.format, width))

\* a finished thumbnail request that missed the thumbnail cache, got every
\* answer it asked of the object store and met no error of the disk
CleanMiss(q) ==
    /\ q.pc = "done" /\ q.h = "GetPhotoThumbnail" /\ q.width > 0
    /\ ~q.hit /\ q.decoded /\ q.getFails = 0 /\ ~q.diskFault

\* C2: two concurrent requests for the same (photo id, width spec) against an
\* empty thumbnail cache, the store reachable: both end with 200 and the full
\* thumbnail bytes, and afterwards the entry at ThumbPath(object_key, spec)
\* exists and holds the bytes a single request would have cached.
C2_ConcurrentThumbnailsBothServed ==
    \A r1, r2 \in Req :
        (/\ r1 # r2
         /\ CleanMiss(req[r1]) /\ CleanMiss(req[r2])
         /\ req[r1].spec = req[r2].spec)
        => /\ req[r1].status = 200
           /\ req[r1].body = ExpectedThumb(req[r1].key, req[r1].width)
           /\ Exists(req[r1].path)
           /\ FileAt(req[r1].path) = ExpectedThumb(req[r1].key, req[r1].width)

\* C8: once a cache entry exists for (object_key, spec), every later retrieval
\* of the same (id, spec) returns the same bytes: each response served from
\* the entry equals the first response that was served from it.
C8_HitsAreByteIdentical ==
    \A r \in Req :
        (req[r].pc = "done" /\ req[r].hit) => <<req[r].path, req[r].body>> \in hits

----------------------------------------------------------------------------
(* Properties of the fallback chain of one request *)

\* a finished retrieval of a known photo, past the validation of its spec
Retrieved(q) == q.pc = "done" /\ q.lookups = 1 /\ q.key # NoKey

\* the local cache gave the request nothing: neither the entry asked for nor,
\* for a thumbnail, the original to resize
LocalMiss(q) == ~q.hit /\ ~q.srcLocal

\* every GetObject the request made failed, and so did every PresignGet (with
\* no object store configured there is none to ask)
StoreAndPresignFailed(q) == q.gets = q.getFails /\ q.presigns = q.presignFails

\* C3 (as stated): for a known id with no usable local entry, when the fetch
\* from the object store and the presigned link both fail, GetPhoto (original
\* and every preset) and GetPhotoThumbnail end with 503.
C3_AllSourcesFailedGives503 ==
    \A r \in Req :
        (Retrieved(req[r]) /\ LocalMiss(req[r]) /\ StoreAndPresignFailed(req[r]))
        => req[r].status = 503

\* C3 (amended): under the same conditions GetPhotoThumbnail and every
\* thumbnail preset of GetPhoto end with 503, never a success, a redirect or
\* another status; the original of GetPhoto ends with the 302 redirect to the
\* public URL stored with the photo.
C3_ThumbnailsGive503OriginalRedirects ==
    \A r \in Req :
        (Retrieved(req[r]) /\ LocalMiss(req[r]) /\ StoreAndPresignFailed(req[r]))
        => IF req[r].width > 0
           THEN req[r].status = 503 /\ req[r].responses = 1
           ELSE req[r].status = 302 /\ req[r].loc = req[r].url

C3_Witness ==
    \E r \in Req :
        /\ Retrieved(req[r]) /\ LocalMiss(req[r]) /\ StoreAndPresignFailed(req[r])
        /\ req[r].h = "GetPhoto" /\ req[r].width > 0
        /\ req[r].getFails = 1 /\ req[r].presignFails = 1
        /\ req[r].status = 503

\* C4: every response whose bytes were not persisted to the local cache
\* carries "private, max-age=60": every 302 redirect, and every 200 sent
\* after localcache.Save failed (resized or not).
C4_UnpersistedResponsesArePrivate ==
    \A r \in Req :
        (/\ req[r].pc = "done"
         /\ \/ req[r].status = 302
            \/ req[r].status = 200 /\ req[r].saved = "failed")
        => req[r].cc = CCPrivate

\* C9 (as stated): when the local cache holds the entry asked for (the
\* original, the thumbnail, or the original as the source of a missing
\* thumbnail) the request ends with 200 from the cache and calls neither
\* GetObject nor PresignGet.
C9_LocalEntryServedWithoutStore ==
    \A r \in Req :
        (/\ req[r].pc = "done" /\ (req[r].hit \/ req[r].srcLocal)
         /\ req[r].status # 500)  \* the disk did not fail the read
        => req[r].status = 200 /\ req[r].gets = 0 /\ req[r].presigns = 0

\* C9 (amended): the same, where the cached original used as the source of a
\* missing thumbnail is one that is read in full and decodes as PNG or JPEG.
C9_UsableLocalEntryServedWithoutStore ==
    \A r \in Req :
        (req[r].pc = "done" /\ (req[r].hit \/ (req[r].srcLocal /\ req[r].decoded)))
        => req[r].status = 200 /\ req[r].gets = 0 /\ req[r].presigns = 0

C9_Witness ==
    \E r \in Req :
        /\ req[r].pc = "done" /\ req[r].srcLocal /\ req[r].decoded
        /\ req[r].saved = "failed"
        /\ req[r].status = 200 /\ req[r].gets = 0 /\ req[r].presigns = 0

\* C10: when the local cache misses and GetObject fails but PresignGet
\* succeeds, the request ends with a 302 redirect to the presigned link, for
\* the original and for thumbnails alike.
C10_GetFailedPresignedRedirects ==
    \A r \in Req :
        (/\ Retrieved(req[r]) /\ LocalMiss(req[r])
         /\ req[r].gets > 0 /\ req[r].gets = req[r].getFails
         /\ req[r].presigns > 0 /\ req[r].presignFails = 0)
        => /\ req[r].status = 302
           /\ req[r].loc = PresignedURL(req[r].key)
           /\ req[r].responses = 1

C10_Witness ==
    \E r \in Req :
        /\ Retrieved(req[r]) /\ LocalMiss(req[r])
        /\ req[r].h = "GetPhoto" /\ req[r].width = 0
        /\ req[r].getFails = 1 /\ req[r].presigns = 1 /\ req[r].presignFails = 0
        /\ req[r].status = 302 /\ req[r].loc = PresignedURL(req[r].key)

----------------------------------------------------------------------------
(* Properties of the validation of the width spec *)

\* the number a string of decimal digits denotes
RECURSIVE NumericValue(_)
NumericValue(widthStr) ==
    IF widthStr = <<>> THEN 0
    ELSE 10 * NumericValue(SubSeq(widthStr, 1, Len(widthStr) - 1))
         + DigitVal(widthStr[Len(widthStr)])

\* "w" followed by one or more decimal digits
WellFormed(spec) ==
    /\ Len(spec) >= 2 /\ spec[1] = "w"
    /\ \A i \in 2..Len(spec) : IsDigit(spec[i])

\* C5: GetPhotoThumbnail passes its validation only when the spec is "w" and
\* digits whose numeric value lies in 1..4096, whatever the length of the
\* digit string; every other spec ends with 400 before any database lookup,
\* object store call or cache access.
C5_OnlyWidthsInRangePass ==
    \A r \in Req :
        (req[r].h = "GetPhotoThumbnail" /\ req[r].pc # "idle")
        => IF WellFormed(req[r].spec)
              /\ NumericValue(Tail(req[r].spec)) \in 1..MaxWidth
           THEN req[r].lookups = 1
           ELSE /\ req[r].status = 400 /\ req[r].pc = "done"
                /\ req[r].lookups = 0 /\ req[r].cacheOps = 0
                /\ req[r].gets = 0 /\ req[r].presigns = 0

----------------------------------------------------------------------------
(* Properties of UploadPhoto *)

\* C6: an upload whose stream exceeds the configured maximum never ends with
\* a stored object and a 201, and the object stored by a successful
\* UploadPhoto is exactly the bytes the client sent, never a truncated prefix.
C6_StoredObjectIsWhatWasSent ==
    up.status = 201
    => /\ Len(up.sent) <= maxBytes
       /\ HasObject(up.key) /\ store[up.key].body = up.sent

\* C7: UploadPhoto inserts exactly one row if and only if it answers 201, on
\* every failure (validation, put, insert) it inserts none, and no row ever
\* references an object key whose put did not succeed.
C7_OneRowIffCreated ==
    /\ [](\A row \in photos : HasObject(row.object_key))
    /\ [][IF up'.status = 201
          THEN /\ photos \subseteq photos'
               /\ Cardinality(photos' \ photos) = 1
               /\ \A row \in photos' \ photos :
                      row.object_key = up'.key /\ up'.putOk
          ELSE photos' = photos]_vars

C7_Witness ==
    /\ up.n = 2 /\ up.status = 500 /\ up.putOk
    /\ Cardinality(photos) = 1
    /\ \A row \in photos : row.object_key # up.key

----------------------------------------------------------------------------
(* Properties of decoding and resizing *)

\* C11: when the source bytes were obtained but image.Decode rejects them, the
\* thumbnail request goes to the presigned redirect; when PresignGet fails too
\* (or cannot be asked) the answer is a 5xx, never a 4xx.
C11_DecodeFailureIsNotAClientError ==
    \A r \in Req :
        (req[r].pc = "done" /\ req[r].decodeFailed)
        => IF req[r].presigns > req[r].presignFails
           THEN req[r].status = 302 /\ req[r].loc = PresignedURL(req[r].key)
           ELSE req[r].status >= 500

\* some stored object is longer than the decode limit
BigSource == \E objectKey \in DOMAIN store : Len(store[objectKey].body) > DecodeLimit

\* C12: a source longer than the decode limit is rejected before decoding: no
\* thumbnail request decodes it, none answers 200 with bytes made from it,
\* and nothing is cached for it under a thumbnail path.
C12_OversizeSourceIsRejected ==
    BigSource
    => /\ \A r \in Req :
              req[r].width > 0 => ~req[r].decoded /\ req[r].status # 200
       /\ \A f \in fs : \A path \in f.names : path[1] # "thumbs"

\* a finished thumbnail request answered 200 for a photo whose stored image
\* is not wider than the width asked for
NoUpscaleServed(q) ==
    /\ q.pc = "done" /\ q.width > 0 /\ q.status = 200
    /\ HasObject(q.key)
    /\ Decode(store[q.key].body).ok
    /\ Decode(store[q.key].body).img.w <= q.width

\* C13: no-upscale law: when the source is not wider than the width asked
\* for, the bytes served are the source bytes unchanged, and what is stored
\* under the thumbnail's path after a successful cache write is those bytes.
C13_NoUpscaleServesSourceBytes ==
    \A r \in Req :
        NoUpscaleServed(req[r])
        => /\ req[r].body = store[req[r].key].body
           /\ Exists(req[r].path) => FileAt(req[r].path) = store[req[r].key].body

\* round(srcH * width / srcW), halves upwards, raised to 1 when it is 0
RoundedHeight(srcW, srcH, width) ==
    Max(1, (2 * srcH * width + srcW) \div (2 * srcW))

\* a finished thumbnail request that answered 200 with an image it resized
Resized(q) ==
    /\ q.pc = "done" /\ q.width > 0 /\ q.status = 200
    /\ ~q.hit /\ q.decoded /\ ~q.noup

\* C14: for a source W x H wider than the width w asked for, the thumbnail
\* generated is w wide and round(H * w / W) high, 1 when that is 0.
C14_HeightIsRoundedProportion ==
    \A r \in Req :
        Resized(req[r])
        => LET src == Decode(store[req[r].key].body).img
               thumb == Decode(req[r].body).img
           IN  /\ thumb.w = req[r].width
               /\ thumb.h = RoundedHeight(src.w, src.h, req[r].width)

----------------------------------------------------------------------------
(* Properties of the cache paths and of the order of the sources *)

\* the spec strings the validation lets through, and those GetPhoto makes
AcceptedSpecs ==
    { spec \in SpecInputs \cup ValidateInputs : ParseSpec(spec).ok }
    \cup { FormatSpec(width) : width \in {WidthSmall, WidthMedium, WidthLarge} }

\* C15: cache-path purity: the path a thumbnail request uses is ThumbPath of
\* its key and spec, no other accepted spec gives that path for the same key,
\* and it is not the path of the original.
C15_PathsDoNotCollide ==
    \A r \in Req :
        (req[r].width > 0 /\ req[r].key # NoKey)
        => /\ req[r].path = ThumbPath(req[r].key, req[r].spec)
           /\ \A spec \in AcceptedSpecs :
                  spec # req[r].spec => ThumbPath(req[r].key, spec) # req[r].path
           /\ req[r].path # PhotoPath(req[r].key)

\* the cache holds the original and two thumbnails of it, in three files
C15_Witness ==
    /\ req[1].pc = "done" /\ req[1].key # NoKey
    /\ LET objectKey == req[1].key
           p0 == PhotoPath(objectKey)
           p1 == ThumbPath(objectKey, FormatSpec(WidthSmall))
           p2 == ThumbPath(objectKey, FormatSpec(WidthMedium))
       IN  /\ Exists(p0) /\ Exists(p1) /\ Exists(p2)
           /\ Named(fs, p0) # Named(fs, p1)
           /\ Named(fs, p1) # Named(fs, p2)
           /\ Named(fs, p0) # Named(fs, p2)

\* a thumbnail request that has gone past the lookup of its thumbnail
PastThumbLookup(q) == q.width > 0 /\ q.key # NoKey /\ ~q.hit

\* C16 (as stated): on a thumbnail miss the local original comes first, the
\* object store is asked for the object only if no local original was opened,
\* the presigned redirect is used only if both failed, and no call goes to
\* the object store when the local original is available.
C16_SourcesInStrictOrder ==
    \A r \in Req :
        PastThumbLookup(req[r])
        => /\ req[r].srcLocal => req[r].gets = 0 /\ req[r].presigns = 0
           /\ req[r].gets > 0 => ~req[r].srcLocal
           /\ req[r].presigns > 0 => ~req[r].srcLocal /\ req[r].gets = req[r].getFails

\* C16 (amended): the same order for obtaining the bytes, where the presigned
\* link is also asked for once bytes that were obtained, from either source,
\* do not decode; GetObject is never called when the local original was opened.
C16_SourcesInOrderUnlessUndecodable ==
    \A r \in Req :
        PastThumbLookup(req[r])
        => /\ req[r].srcLocal => req[r].gets = 0
           /\ req[r].gets > 0 => ~req[r].srcLocal
           /\ req[r].gets <= 1 /\ req[r].presigns <= 1
           /\ req[r].presigns > 0
              => \/ ~req[r].srcLocal /\ req[r].gets = req[r].getFails
                 \/ req[r].decodeFailed

C16_Witness ==
    \E r \in Req :
        /\ req[r].pc = "done" /\ PastThumbLookup(req[r])
        /\ req[r].srcLocal /\ req[r].decodeFailed
        /\ req[r].gets = 0 /\ req[r].presigns = 1 /\ req[r].status = 302

----------------------------------------------------------------------------
(* Properties of the responses around the cache write *)

\* what a request answers when its cache write succeeds: the object for the
\* original; for a thumbnail the bytes read from the source, as they are or
\* resized
ServedAfterSave(q) ==
    LET body == store[q.key].body
        data == LimitRead(body, DecodeLimit)
        d == Decode(data)
    IN  IF q.width = 0 THEN body
        ELSE IF d.img.w <= q.width THEN data
             ELSE Encode(Resize(d.img, d.format, q.width))

\* C17: a failure of the cache write is not surfaced: when the object store
\* answers every get, a request whose Save fails ends with status 200 and the
\* body that the request answers when its Save succeeds.
C17_CacheWriteFailureNotSurfaced ==
    \A r \in Req :
        /\ (req[r].pc = "done" /\ req[r].saved = "yes")
           => req[r].status = 200 /\ req[r].body = ServedAfterSave(req[r])
        /\ (/\ req[r].pc = "done" /\ req[r].saved = "failed"
            /\ req[r].getFails = 0 /\ ~req[r].copyFailed)
           => /\ req[r].status = 200 /\ req[r].body = ServedAfterSave(req[r])
              /\ req[r].responses = 1

C17_Witness ==
    \E r \in Req :
        /\ req[r].pc = "done" /\ req[r].saved = "failed"
        /\ req[r].width = 0 /\ req[r].gets = 2 /\ req[r].getFails = 0
        /\ ~req[r].copyFailed
        /\ req[r].status = 200 /\ req[r].body = store[req[r].key].body
        /\ req[r].cc = CCPrivate

----------------------------------------------------------------------------
(* Termination *)

\* C18: every call to the object store is bounded by a timeout of its own, so
\* a request ends with a response even when the store never answers: an
\* upload in flight ends, and a retrieval waiting for GetObject ends.
C18_EveryStoreCallIsBounded ==
    /\ Uploading ~> (up.status # 0)
    /\ (req[1].pc = "get_wait") ~> (req[1].pc = "done")

----------------------------------------------------------------------------
(* Read-through retrieval of originals *)

\* request r asks for the original of a photo that is in the database
OriginalRequest(q) == q.h = "GetPhoto" /\ q.width = 0 /\ q.key # NoKey

\* C19: retrieval of an original is read-through. A request that fetched the
\* original and saved it leaves the cache entry with the stored bytes; the
\* entry stays; every request for the original that starts while the entry
\* is there is a hit, and a hit makes no call to the object store, carries the
\* immutable directive and, when the file can be read, answers 200 with the
\* stored bytes.
C19_OriginalIsReadThrough ==
    /\ [](\A r \in Req :
            (req[r].pc = "done" /\ OriginalRequest(req[r]) /\ req[r].saved = "yes")
            => /\ Exists(PhotoPath(req[r].key))
               /\ FileAt(PhotoPath(req[r].key)) = store[req[r].key].body)
    /\ [][\A row \in photos :
            Exists(PhotoPath(row.object_key))
            => (Exists(PhotoPath(row.object_key)))']_vars
    /\ [][\A r \in Req :
            (/\ req[r].pc \in {"idle", "done"} /\ req'[r] # req[r]
             /\ OriginalRequest(req'[r])
             /\ Exists(PhotoPath(req'[r].key)))
            => req'[r].hit]_vars
    /\ [](\A r \in Req :
            (OriginalRequest(req[r]) /\ req[r].hit)
            => /\ req[r].gets = 0 /\ req[r].presigns = 0
               /\ req[r].cc = CCImmutable
               /\ (req[r].pc = "done" /\ ~req[r].diskFault)
                  => /\ req[r].status = 200
                     /\ req[r].body = store[req[r].key].body)

\* an original served from the entry that an earlier request saved
C19_Witness ==
    \E r \in Req :
        /\ req[r].pc = "done" /\ OriginalRequest(req[r]) /\ req[r].hit
        /\ req[r].status = 200 /\ req[r].body = store[req[r].key].body
        /\ req[r].gets = 0 /\ req[r].presigns = 0 /\ req[r].cc = CCImmutable
        /\ Exists(PhotoPath(req[r].key))

----------------------------------------------------------------------------
(* The caching directive of persisted responses *)

\* C20: every response served from a cache entry that was there when the
\* request looked, and every 200 whose bytes the request itself saved, carries
\* "public, max-age=31536000, immutable".
C20_PersistedResponsesAreImmutable ==
    \A r \in Req :
        (/\ req[r].pc = "done"
         /\ \/ req[r].hit
            \/ req[r].status = 200 /\ req[r].saved = "yes")
        => req[r].status = 200 /\ req[r].cc = CCImmutable

\* a thumbnail served from its entry, and so saved by an earlier request
C20_Witness ==
    \E r \in Req :
        /\ req[r].pc = "done" /\ req[r].hit /\ req[r].width > 0
        /\ req[r].status = 200 /\ req[r].cc = CCImmutable
        /\ req[r].body = FileAt(req[r].path)

----------------------------------------------------------------------------
(* Unknown ids *)

\* the request of goroutine r has ended and was for an id with no row
UnknownDone(r) ==
    req[r].pc = "done" /\ req[r].h # "none" /\ req[r].id = UnknownId

\* C21 as claimed: a retrieval for an id the metadata store does not know ends
\* with 404, and touches neither the local cache nor the object store.
C21_UnknownIdGives404 ==
    \A r \in Req :
        UnknownDone(r)
        => /\ req[r].status = 404
           /\ req[r].cacheOps = 0 /\ req[r].gets = 0 /\ req[r].presigns = 0

\* C21: a retrieval for an id the metadata store does not know touches
\* neither the local cache nor the object store and gives one response: 400,
\* without asking the metadata store, when GetPhotoThumbnail's width
\* specification is invalid, and 404 otherwise.
C21_UnknownIdIsTerminal ==
    \A r \in Req :
        UnknownDone(r)
        => /\ req[r].cacheOps = 0 /\ req[r].gets = 0 /\ req[r].presigns = 0
           /\ req[r].responses = 1 /\ req[r].saved = "no"
           /\ IF req[r].h = "GetPhotoThumbnail" /\ ~ParseSpec(req[r].spec).ok
              THEN req[r].status = 400 /\ req[r].lookups = 0
              ELSE req[r].status = 404 /\ req[r].lookups = 1

\* a thumbnail request with a valid width for an unknown id, answered 404
C21_Witness ==
    \E r \in Req :
        /\ UnknownDone(r) /\ req[r].h = "GetPhotoThumbnail"
        /\ ParseSpec(req[r].spec).ok
        /\ req[r].status = 404 /\ req[r].lookups = 1 /\ req[r].cacheOps = 0

----------------------------------------------------------------------------
(* The content type of an upload *)

\* the types that say nothing about the content
GenericType(t) ==
    t \in {"", "application/octet-stream", "binary/octet-stream",
           "text/plain; charset=utf-8"}

\* the resolution in the words of the claim: the sniffed type when it is
\* specific, otherwise the part's header, otherwise, when the header gives no
\* usable type, the mapping of the file name's extension
ClaimedContentType(bytes, hdrType, fileExt) ==
    IF ~GenericType(DetectContentType(bytes)) THEN DetectContentType(bytes)
    ELSE IF ~GenericType(hdrType) THEN hdrType
    ELSE ExtensionType(LowerExt(fileExt))

\* C22: UploadPhoto resolves the content type as the sniffed type when it is
\* specific, otherwise the part's header, otherwise the extension mapping when
\* the header gives no usable type, and it rejects the upload for its type
\* exactly when the resolved type is not an image type.
C22_TypeResolvedAsClaimed ==
    up.ctype # ""
    => /\ up.ctype = ClaimedContentType(up.sent, up.hdr, up.ext)
       /\ (up.status = 400) <=> ~IsImageType(up.ctype)

----------------------------------------------------------------------------
(* The thumbnail selector of GetPhoto *)

\* the width the claim gives a selector: 0 stands for no thumbnail
ClaimedWidth(sel) ==
    IF sel = "small" THEN 100
    ELSE IF sel = "large" THEN 1200
    ELSE IF sel = "original" THEN 0
    ELSE 300

\* C23: GetPhoto maps the thumbnail query value, compared without regard to
\* case and surrounding blanks, to a width as small=100, medium=300,
\* large=1200, original=no thumbnail; a missing value and every unrecognised
\* value are treated as medium. The request then works on the cache entry of
\* that width, or on the original's.
C23_SelectorGivesWidth ==
    \A r \in Req :
        (req[r].h = "GetPhoto" /\ req[r].key # NoKey)
        => /\ req[r].width = ClaimedWidth(TrimLower(req[r].sel))
           /\ req[r].path = IF req[r].width = 0 THEN PhotoPath(req[r].key)
                            ELSE ThumbPath(req[r].key, FormatSpec(req[r].width))
           /\ req[r].width = 300 => req[r].spec = <<"w", "3", "0", "0">>

\* an unrecognised selector served as the medium thumbnail
C23_Witness ==
    \E r \in Req :
        /\ req[r].pc = "done" /\ req[r].h = "GetPhoto" /\ req[r].sel = "bogus"
        /\ req[r].width = 300 /\ req[r].status = 200
        /\ req[r].path = ThumbPath(req[r].key, <<"w", "3", "0", "0">>)

----------------------------------------------------------------------------
(* No retries *)

----------------------------------------------------------------------------
(* Cache paths of different photos *)

\* C25: distinct object keys never share a cache path. For any two different
\* object keys that UploadPhoto has assigned, PhotoPath gives different paths
\* and ThumbPath gives different paths for the same spec, and no original's
\* path is a thumbnail's.
C25_DistinctKeysDistinctPaths ==
    \A r1, r2 \in photos :
        r1.object_key # r2.object_key
        => /\ PhotoPath(r1.object_key) # PhotoPath(r2.object_key)
           /\ \A w \in {WidthSmall, WidthMedium, WidthLarge} :
                /\ ThumbPath(r1.object_key, FormatSpec(w))
                   # ThumbPath(r2.object_key, FormatSpec(w))
                /\ ThumbPath(r1.object_key, FormatSpec(w)) # PhotoPath(r2.object_key)

\* two uploads with the same extension, stored under two keys with two paths
C25_Witness ==
    \E r1, r2 \in photos :
        /\ r1.object_key # r2.object_key
        /\ r1.object_key[3] = r2.object_key[3]
        /\ PhotoPath(r1.object_key) # PhotoPath(r2.object_key)
        /\ ThumbPath(r1.object_key, FormatSpec(WidthMedium))
           # ThumbPath(r2.object_key, FormatSpec(WidthMedium))

----------------------------------------------------------------------------
(* One response per request *)

\* C26: every retrieval request produces exactly one terminal response: a
\* handler that has started to write a 200 body never goes on to write a
\* second response for the same request.
C26_ExactlyOneResponse ==
    \A r \in Req :
        /\ req[r].pc = "done" => req[r].responses = 1
        /\ req[r].responses <= 1

----------------------------------------------------------------------------
(* The content type of a thumbnail, generated and served again *)

\* C27: for the same photo and the same width spec, the response that
\* generates a thumbnail cache entry and a later cache-hit response for that
\* entry declare the same content type.
C27_HitDeclaresGeneratedType ==
    \A r1, r2 \in Req :
        (/\ req[r1].pc = "done" /\ req[r1].status = 200 /\ req[r1].width > 0
         /\ req[r1].saved = "yes"
         /\ req[r2].pc = "done" /\ req[r2].hit
         /\ req[r2].path = req[r1].path)
        => req[r2].ct = req[r1].ct

----------------------------------------------------------------------------
(* The two thumbnail endpoints *)

\* a finished thumbnail request for a photo that is in the database
ThumbnailDone(q) == q.pc = "done" /\ q.width > 0 /\ q.key # NoKey

\* the source bytes reached the handler, from the local original or a get
SourceObtained(q) == q.srcLocal \/ q.gets > q.getFails

\* Status, body and cache directive as a function of what happened to the
\* request: the cache lookup, the source, the presign, the decoding and the
\* cache write.  The handler that served the request is not looked at.
ThumbResponse(q) ==
    IF q.hit THEN <<200, FileAt(q.path), CCImmutable>>
    ELSE IF q.saved = "yes" THEN <<200, ServedAfterSave(q), CCImmutable>>
    ELSE IF q.saved = "failed"
         THEN <<200, ServedAfterSave(q), IF q.noup THEN CCNone ELSE CCPrivate>>
    ELSE IF q.presigns = 1 /\ q.presignFails = 0 THEN <<302, <<>>, CCPrivate>>
    ELSE IF q.decodeFailed THEN <<400, <<>>, CCNone>>
    ELSE IF SourceObtained(q) THEN <<500, <<>>, CCNone>>
    ELSE <<503, <<>>, CCNone>>

\* C28: GetPhoto with the small, medium or large preset and GetPhotoThumbnail
\* with w100, w300 or w1200 are equivalent for the same photo: both work on
\* the cache entry ThumbPath(key, "w<width>"), and status, body and cache
\* directive are the same function of the cache, store, presign, decode and
\* cache-write outcomes, whichever handler served the request.
C28_PresetsEqualWidths ==
    \A r \in Req :
        ThumbnailDone(req[r])
        => /\ req[r].path = ThumbPath(req[r].key, <<"w">> \o FormatInt(req[r].width))
           /\ req[r].spec = <<"w">> \o FormatInt(req[r].width)
           /\ <<req[r].status, req[r].body, req[r].cc>> = ThumbResponse(req[r])
           /\ req[r].saved = "yes" => FileAt(req[r].path) = req[r].body

\* GetPhoto with a preset that generated the thumbnail and stored it
C28_Witness ==
    \E r \in Req :
        /\ ThumbnailDone(req[r]) /\ req[r].h = "GetPhoto" /\ req[r].sel = "small"
        /\ req[r].saved = "yes" /\ ~req[r].noup /\ req[r].status = 200
        /\ req[r].path = ThumbPath(req[r].key, <<"w", "1", "0", "0">>)
        /\ FileAt(req[r].path) = req[r].body

----------------------------------------------------------------------------
(* A failed Save *)

\* goroutine r is inside localcache.Save
InSave(q) ==
    q.pc \in {"save_create", "save_write", "save_close", "save_rename", "save_remove"}

----------------------------------------------------------------------------
(* The write rate limiter under concurrent requests *)

\* C30: the write rate limiter is safe under concurrent requests: the process
\* is not stopped by the runtime, no two requests are inside the increment of
\* the same map at the same time, and no increment is lost: every map holds
\* the count it was loaded with plus the increments made on it.
C30_LimiterIsSafe ==
    /\ ~lim.crashed
    /\ \A r1, r2 \in Req, k \in 1..Len(lim.maps) :
           (InIncrement(r1, k) /\ InIncrement(r2, k)) => r1 = r2
    /\ \A k \in 1..Len(lim.maps) : lim.maps[k] = lim.loaded[k] + lim.incs[k]

====
